---- MODULE Spec2Model ----
(***************************************************************************)
(* TaskTrack: the Express/Mongoose task API (auth routes, task routes, the  *)
(* authentication middleware, request validation) as a state machine.       *)
(*                                                                         *)
(* Strings whose length or characters the code inspects (usernames, emails, *)
(* passwords, titles) are sequences of one-character strings.  Optional     *)
(* request fields are record fields that may be missing from the record     *)
(* (f \notin DOMAIN body  <=>  body.f === undefined).  Time is in days.      *)
(***************************************************************************)
EXTENDS Integers, Sequences, FiniteSets, TLC

(* ------------------------------ bounds -------------------------------- *)
MaxUsers == 2
MaxTasks == 2
MaxTime == 7
MaxTokens == 2
MaxRequests == 2
MaxCalls == 2

(* --------------------------- program constants ------------------------- *)
TokenTTL == 7
UsernameMin == 3
UsernameMax == 20
PasswordMin == 6
TitleMin == 1
TitleMax == 100
DescriptionMax == 500

StatusValues == {"pending", "in-progress", "completed"}
PriorityValues == {"low", "medium", "high"}
ListSortBy == {"createdAt", "dueDate", "priority"}
SortOrders == {"asc", "desc"}

(* ------------------------------ strings -------------------------------- *)
RECURSIVE TrimLeft(_)
TrimLeft(s) == IF s # <<>> /\ Head(s) = " " THEN TrimLeft(Tail(s)) ELSE s

RECURSIVE TrimRight(_)
TrimRight(s) ==
  IF s # <<>> /\ s[Len(s)] = " " THEN TrimRight(SubSeq(s, 1, Len(s) - 1)) ELSE s

Trim(s) == TrimRight(TrimLeft(s))

LowerChar(c) == IF c = "A" THEN "a" ELSE IF c = "B" THEN "b" ELSE c

ToLowerCase(s) == [i \in 1..Len(s) |-> LowerChar(s[i])]

Positions(s, c) == {i \in 1..Len(s) : s[i] = c}

\* validator.js isEmail, on the shapes used here: one "@", a non-empty local
\* part, a dotted domain with non-empty labels, no blanks.
IsEmail(s) ==
  /\ Cardinality(Positions(s, "@")) = 1
  /\ Positions(s, " ") = {}
  /\ LET at == CHOOSE i \in Positions(s, "@") : TRUE
     IN /\ at > 1
        /\ \E d \in Positions(s, ".") : d > at + 1 /\ d < Len(s)
        /\ \A d \in Positions(s, ".") : d > at => (d # at + 1 /\ d # Len(s))

IsLength(s, min, max) == Len(s) >= min /\ Len(s) <= max

(* --------------------------- request validation ------------------------ *)
Has(body, f) == f \in DOMAIN body

\* authValidators.register, with the sanitizers (trim) applied to the body
RegisterSanitized(body) ==
  [username |-> Trim(body.username), email |-> Trim(body.email), password |-> body.password]

RegisterValid(body) ==
  /\ IsLength(Trim(body.username), UsernameMin, UsernameMax)
  /\ IsEmail(Trim(body.email))
  /\ Len(body.password) >= PasswordMin

LoginSanitized(body) == [email |-> Trim(body.email), password |-> body.password]

\* faulty variant: the login validators without the password length
LoginValidEmailOnly(body) == IsEmail(Trim(body.email))

\* authValidators.login
LoginValid(body) ==
  /\ IsEmail(Trim(body.email))
  /\ Len(body.password) >= PasswordMin

(* ------------------------------ User model ----------------------------- *)
\* bcrypt.hash in the pre-save hook; comparePassword is bcrypt.compare
BcryptHash(password) == [bcrypt |-> password]

ComparePassword(user, candidate) == user.password = BcryptHash(candidate)

\* new User({...}): the schema setters trim the username, trim and lowercase
\* the email; save() hashes the password.
NewUser(id, username, email, password) ==
  [_id |-> id, username |-> Trim(username), email |-> ToLowerCase(Trim(email)),
   password |-> BcryptHash(password)]

\* faulty variant: the projection with the stored hash left in
PublicUserWithHash(u) ==
  [id |-> u._id, username |-> u.username, email |-> u.email, password |-> u.password]

\* select('-password') / the { id, username, email } projection
PublicUser(u) == [id |-> u._id, username |-> u.username, email |-> u.email]

NoUser == [id |-> 0, username |-> <<>>, email |-> <<>>]

MinById(S) == CHOOSE u \in S : \A v \in S : u._id <= v._id

\* faulty variant: the duplicate lookup by email alone
FindByEmailOnly(store, email, username) ==
  {u \in store : u.email = ToLowerCase(Trim(email))}

\* User.findOne({ $or: [{ email }, { username }] }); the filter is cast
\* through the schema setters.  The set of matches; findOne yields one.
FindByEmailOrUsername(store, email, username) ==
  {u \in store : u.email = ToLowerCase(Trim(email)) \/ u.username = Trim(username)}

FindByEmail(store, email) == {u \in store : u.email = ToLowerCase(Trim(email))}

FindById(store, id) == {u \in store : u._id = id}

(* ----------------------------- token service --------------------------- *)
NoSecret == ""

NoToken == [userId |-> 0, iat |-> 0, exp |-> 0, sig |-> ""]

\* jwt.sign({ userId }, JWT_SECRET, { expiresIn: '7d' })
JwtSign(userId, secret, time) ==
  [userId |-> userId, iat |-> time, exp |-> time + TokenTTL, sig |-> secret]

\* faulty variant: a verification that turns the token down a day before its expiry
JwtVerifyADayEarly(token, secret, time) == token.sig = secret /\ time + 1 < token.exp

\* jwt.verify: the signature must verify and the clock must be before exp
JwtVerify(token, secret, time) == token.sig = secret /\ time < token.exp

(* ------------------------------- state --------------------------------- *)
VARIABLES
  users,        \* the users collection
  userSeq,      \* ObjectIds handed out to users so far
  tasks,        \* the tasks collection
  taskSeq,      \* ObjectIds handed out to tasks so far
  now,          \* the clock, in days
  jwtSecret,    \* process.env.JWT_SECRET
  issued,       \* tokens the server has returned to clients
  localStorage, \* the browser's stored token (NoToken when none)
  last,         \* the latest request and its response
  inflight,     \* server requests waiting at a database call, and their answers
  client,       \* the browser: the auth context's and the task hook's state
  calls         \* the browser's HTTP calls: sent, answered, received

vars == <<users, userSeq, tasks, taskSeq, now, jwtSecret, issued, localStorage, last,
          inflight, client, calls>>

\* The part of the state a request handler reads and writes.
Store == [users |-> users, userSeq |-> userSeq, tasks |-> tasks, taskSeq |-> taskSeq,
          secret |-> jwtSecret, time |-> now]

(* --------------------------- authentication gate ----------------------- *)
NoHeader == [present |-> FALSE, parts |-> <<>>]

Header(scheme, token) == [present |-> TRUE, parts |-> <<scheme, token>>]

SchemeOnly(scheme) == [present |-> TRUE, parts |-> <<scheme>>]

\* authHeader && authHeader.split(' ')[1]
HeaderToken(header) ==
  IF header.present /\ Len(header.parts) >= 2 THEN header.parts[2] ELSE NoToken

Reject(status, message) ==
  [ok |-> FALSE, status |-> status, message |-> message, user |-> NoUser]

\* middleware/auth.ts authenticateToken: the response it sends, or the
\* identity it attaches before calling next()
authenticateToken(st, header) ==
  LET token == HeaderToken(header)
  IN IF token = NoToken THEN Reject(401, "Access token required")
     ELSE IF st.secret = NoSecret THEN Reject(403, "Invalid or expired token")
     ELSE IF ~JwtVerify(token, st.secret, st.time)
          THEN Reject(403, "Invalid or expired token")
     ELSE IF FindById(st.users, token.userId) = {} THEN Reject(401, "Invalid token")
     ELSE [ok |-> TRUE, status |-> 200, message |-> "",
           user |-> PublicUser(MinById(FindById(st.users, token.userId)))]

(* ------------------------------ auth service --------------------------- *)
\* What a request leaves behind: the response and the store after it.
Reply(st, status, message, body) ==
  [status |-> status, message |-> message, body |-> body, ran |-> TRUE,
   users |-> st.users, userSeq |-> st.userSeq, tasks |-> st.tasks, taskSeq |-> st.taskSeq]

NoBody == [none |-> TRUE]

\* validate(...): next(new ApiError(400, 'Validation failed', ...)), answered
\* by errorHandler; no later middleware runs
ValidationFailed(st) ==
  [Reply(st, 400, "Validation failed", NoBody) EXCEPT !.ran = FALSE]

\* the authentication gate answered the request itself
GateRejected(st, auth) ==
  [Reply(st, auth.status, auth.message, NoBody) EXCEPT !.ran = FALSE]

\* errorHandler on a plain Error: 500 with the error's message
Thrown(st, message) == Reply(st, 500, message, NoBody)

SecretMissing == "JWT_SECRET is not defined in environment variables"

\* faulty variant: a registration that answers with the request's fields instead of
\* the saved document's
registerUserEchoingInput(st, username, email, password) ==
  LET existing == FindByEmailOrUsername(st.users, email, username)
      user == NewUser(st.userSeq + 1, username, email, password)
      saved == [st EXCEPT !.users = st.users \cup {user}, !.userSeq = st.userSeq + 1]
  IN IF existing # {}
     THEN Reply(st, 400,
                IF MinById(existing).email = email THEN "Email already registered"
                                                   ELSE "Username already taken",
                NoBody)
     ELSE IF st.secret = NoSecret THEN Thrown(saved, SecretMissing)
     ELSE Reply(saved, 201, "User registered successfully",
                [token |-> JwtSign(user._id, st.secret, st.time),
                 user |-> [id |-> user._id, username |-> username, email |-> email]])

\* authService.registerUser followed by authController.register
registerUser(st, username, email, password) ==
  LET existing == FindByEmailOrUsername(st.users, email, username)
      user == NewUser(st.userSeq + 1, username, email, password)
      saved == [st EXCEPT !.users = st.users \cup {user}, !.userSeq = st.userSeq + 1]
  IN IF existing # {}
     THEN Reply(st, 400,
                IF MinById(existing).email = email THEN "Email already registered"
                                                   ELSE "Username already taken",
                NoBody)
     ELSE IF st.secret = NoSecret THEN Thrown(saved, SecretMissing)
     ELSE Reply(saved, 201, "User registered successfully",
                [token |-> JwtSign(user._id, st.secret, st.time), user |-> PublicUser(user)])

\* POST /api/auth/register: validate(authValidators.register), register
RegisterRoute(st, body) ==
  IF ~RegisterValid(body) THEN ValidationFailed(st)
  ELSE LET b == RegisterSanitized(body)
       IN registerUser(st, b.username, b.email, b.password)

\* faulty variant: a login that tells an unknown email from a wrong password
loginUserNamingUnknownEmail(st, email, password) ==
  LET found == FindByEmail(st.users, email)
  IN IF found = {} THEN Reply(st, 404, "User not found", NoBody)
     ELSE IF ~ComparePassword(MinById(found), password)
          THEN Reply(st, 401, "Invalid credentials", NoBody)
     ELSE IF st.secret = NoSecret THEN Thrown(st, SecretMissing)
     ELSE Reply(st, 200, "Login successful",
                [token |-> JwtSign(MinById(found)._id, st.secret, st.time),
                 user |-> PublicUser(MinById(found))])

\* authService.loginUser followed by authController.login
loginUser(st, email, password) ==
  LET found == FindByEmail(st.users, email)
  IN IF found = {} THEN Reply(st, 401, "Invalid credentials", NoBody)
     ELSE IF ~ComparePassword(MinById(found), password)
          THEN Reply(st, 401, "Invalid credentials", NoBody)
     ELSE IF st.secret = NoSecret THEN Thrown(st, SecretMissing)
     ELSE Reply(st, 200, "Login successful",
                [token |-> JwtSign(MinById(found)._id, st.secret, st.time),
                 user |-> PublicUser(MinById(found))])

\* POST /api/auth/login: validate(authValidators.login), login
LoginRoute(st, body) ==
  IF ~LoginValid(body) THEN ValidationFailed(st)
  ELSE LET b == LoginSanitized(body) IN loginUser(st, b.email, b.password)

\* GET /api/auth/me: authenticateToken, me
MeRoute(st, header) ==
  LET auth == authenticateToken(st, header)
  IN IF ~auth.ok THEN GateRejected(st, auth)
     ELSE Reply(st, 200, "", [user |-> auth.user])

(* ------------------------------ task inputs ---------------------------- *)
Undefined == "undefined"
Null == "null"
ValidDates == {"2026-01-01", "2026-02-01"}

\* optional values: <<>> when the field is absent, <<v>> when it holds v
None == <<>>
Some(v) == <<v>>

\* :id path parameters: a 24-hex ObjectId (hex, with its value) or anything else
ObjectId(n) == [hex |-> TRUE, oid |-> n]
NotAnObjectId == [hex |-> FALSE, oid |-> 0]
IsMongoId(id) == id.hex

\* the checks behind express-validator's .optional(), which skips only an
\* undefined field
IsStatus(v) == v \in StatusValues
IsPriority(v) == v \in PriorityValues
IsSortBy(v) == v \in ListSortBy
IsSortOrder(v) == v \in SortOrders
IsTitle(v) == IsLength(Trim(v), TitleMin, TitleMax)
IsDescription(v) == Len(Trim(v)) <= DescriptionMax
IsISO8601(v) == v \in ValidDates
\* taskValidators.update dueDate: null is allowed, otherwise Date.parse
IsDateOrNull(v) == v = Null \/ v \in ValidDates

\* taskValidators.list
ListValid(query) ==
  /\ (Has(query, "status") => IsStatus(query.status))
  /\ (Has(query, "priority") => IsPriority(query.priority))
  /\ (Has(query, "sortBy") => IsSortBy(query.sortBy))
  /\ (Has(query, "sortOrder") => IsSortOrder(query.sortOrder))

\* faulty variant: the create validators without the title's trim
CreateValidUntrimmed(body) ==
  /\ Has(body, "title") /\ IsLength(body.title, TitleMin, TitleMax)
  /\ (Has(body, "description") => IsDescription(body.description))
  /\ (Has(body, "status") => IsStatus(body.status))
  /\ (Has(body, "priority") => IsPriority(body.priority))
  /\ (Has(body, "dueDate") => IsISO8601(body.dueDate))

\* taskValidators.create
CreateValid(body) ==
  /\ Has(body, "title") /\ IsTitle(body.title)
  /\ (Has(body, "description") => IsDescription(body.description))
  /\ (Has(body, "status") => IsStatus(body.status))
  /\ (Has(body, "priority") => IsPriority(body.priority))
  /\ (Has(body, "dueDate") => IsISO8601(body.dueDate))

\* taskValidators.update
UpdateValid(id, body) ==
  /\ IsMongoId(id)
  /\ (Has(body, "title") => IsTitle(body.title))
  /\ (Has(body, "description") => IsDescription(body.description))
  /\ (Has(body, "status") => IsStatus(body.status))
  /\ (Has(body, "priority") => IsPriority(body.priority))
  /\ (Has(body, "dueDate") => IsDateOrNull(body.dueDate))

\* req.body.f after the sanitizers, as the controllers read it
Field(body, f) == IF Has(body, f) THEN Some(body[f]) ELSE None
Trimmed(body, f) == IF Has(body, f) THEN Some(Trim(body[f])) ELSE None
\* req.body.dueDate ?? undefined
DueDateOrUndefined(body) ==
  IF Has(body, "dueDate") /\ body.dueDate # Null THEN Some(body.dueDate) ELSE None

(* ------------------------------ task service --------------------------- *)
\* the order MongoDB gives the values of a sort key: strings by their
\* characters' codes, a missing date before every date
Chars ==
  <<" ", ".", "1", "2", "3", "@", "A", "a", "b", "c", "d", "e", "g", "i", "l", "n",
    "o", "r", "s", "t", "u", "w", "x">>
CharCode(c) == CHOOSE i \in 1..Len(Chars) : Chars[i] = c

RECURSIVE StringLeq(_, _)
StringLeq(a, b) ==
  \/ a = <<>>
  \/ /\ b # <<>>
     /\ \/ CharCode(Head(a)) < CharCode(Head(b))
        \/ Head(a) = Head(b) /\ StringLeq(Tail(a), Tail(b))

DateRank(d) == IF d = "2026-01-01" THEN 1 ELSE IF d = "2026-02-01" THEN 2 ELSE 0
PriorityRank(p) == IF p = "high" THEN 1 ELSE IF p = "low" THEN 2 ELSE 3

KeyLeq(a, b, sortBy) ==
  IF sortBy = "dueDate" THEN DateRank(a.dueDate) <= DateRank(b.dueDate)
  ELSE IF sortBy = "priority" THEN PriorityRank(a.priority) <= PriorityRank(b.priority)
  ELSE IF sortBy = "createdAt" THEN a.createdAt <= b.createdAt
  ELSE IF sortBy = "title" THEN StringLeq(a.title, b.title)
  ELSE TRUE

\* .sort({ [sortBy]: sortOrder === 'asc' ? 1 : -1 }) holds of a result
Sorted(seq, sortBy, sortOrder) ==
  \A i, j \in 1..Len(seq) :
    i < j => IF sortOrder = "asc" THEN KeyLeq(seq[i], seq[j], sortBy)
                                  ELSE KeyLeq(seq[j], seq[i], sortBy)

\* a set of documents as a sequence sorted by the key in the direction;
\* documents with equal keys come in an order the database chooses
RECURSIVE SortedBy(_, _, _)
SortedBy(S, sortBy, sortOrder) ==
  IF S = {} THEN <<>>
  ELSE LET first == CHOOSE t \in S :
                      \A u \in S : IF sortOrder = "asc" THEN KeyLeq(t, u, sortBy)
                                                        ELSE KeyLeq(u, t, sortBy)
       IN <<first>> \o SortedBy(S \ {first}, sortBy, sortOrder)

\* the sort of listTasks, with its defaults
SortTasks(matches, filters) ==
  SortedBy(matches,
           IF Has(filters, "sortBy") THEN filters.sortBy ELSE "createdAt",
           IF Has(filters, "sortOrder") THEN filters.sortOrder ELSE "desc")

\* faulty variant: the list query without the owner condition
listTasksOfEveryone(st, userId, filters) ==
  SortTasks({t \in st.tasks :
               /\ (Has(filters, "status") /\ filters.status \in StatusValues
                     => t.status = filters.status)
               /\ (Has(filters, "priority") /\ filters.priority \in PriorityValues
                     => t.priority = filters.priority)},
            filters)

\* Task.find({ userId, status?, priority? }).sort(...): a filter is applied
\* only when its value is one of the enumerated ones
listTasks(st, userId, filters) ==
  SortTasks({t \in st.tasks :
               /\ t.userId = userId
               /\ (Has(filters, "status") /\ filters.status \in StatusValues
                     => t.status = filters.status)
               /\ (Has(filters, "priority") /\ filters.priority \in PriorityValues
                     => t.priority = filters.priority)},
            filters)

\* the filter { _id: id, userId } of findOne, findOneAndUpdate, findOneAndDelete
MatchIdAndOwner(st, userId, id) == {t \in st.tasks : t._id = id.oid /\ t.userId = userId}

\* faulty variant: findOne by _id alone
getTaskOfAnyOwner(st, userId, id) == {t \in st.tasks : t._id = id.oid}

\* Task.findOne({ _id: id, userId })
getTask(st, userId, id) == MatchIdAndOwner(st, userId, id)

\* faulty variant: a creation that stores omitted status and priority as given
createTaskWithoutDefaults(st, userId, payload) ==
  [_id |-> st.taskSeq + 1,
   title |-> payload.title[1],
   description |-> payload.description,
   status |-> IF payload.status # None THEN payload.status[1] ELSE Undefined,
   priority |-> IF payload.priority # None THEN payload.priority[1] ELSE Undefined,
   dueDate |-> IF payload.dueDate # None THEN payload.dueDate[1] ELSE Undefined,
   userId |-> userId,
   createdAt |-> st.time]

\* new Task({...}).save()
createTask(st, userId, payload) ==
  [_id |-> st.taskSeq + 1,
   title |-> payload.title[1],
   description |-> payload.description,
   status |-> IF payload.status # None THEN payload.status[1] ELSE "pending",
   priority |-> IF payload.priority # None THEN payload.priority[1] ELSE "medium",
   dueDate |-> IF payload.dueDate # None THEN payload.dueDate[1] ELSE Undefined,
   userId |-> userId,
   createdAt |-> st.time]

\* faulty variant: the update as a replacement document, omitted fields back
\* to their defaults
ApplyUpdateReplacing(t, payload) ==
  [t EXCEPT
     !.title = IF payload.title # None /\ payload.title[1] # <<>>
               THEN payload.title[1] ELSE @,
     !.description = payload.description,
     !.status = IF payload.status # None THEN payload.status[1] ELSE "pending",
     !.priority = IF payload.priority # None THEN payload.priority[1] ELSE "medium",
     !.dueDate = IF payload.dueDate # None THEN payload.dueDate[1] ELSE Undefined]

\* the update document of findOneAndUpdate, applied to a task
ApplyUpdate(t, payload) ==
  [t EXCEPT
     !.title = IF payload.title # None /\ payload.title[1] # <<>>
               THEN payload.title[1] ELSE @,
     !.description = IF payload.description # None THEN payload.description ELSE @,
     !.status = IF payload.status # None THEN payload.status[1] ELSE @,
     !.priority = IF payload.priority # None THEN payload.priority[1] ELSE @,
     !.dueDate = IF payload.dueDate # None THEN payload.dueDate[1] ELSE @]

\* faulty variant: findOneAndUpdate by _id alone
updateTaskOfAnyOwner(st, userId, id, payload) ==
  LET matched == {t \in st.tasks : t._id = id.oid}
      updated == {ApplyUpdate(t, payload) : t \in matched}
  IN [doc |-> updated, tasks |-> (st.tasks \ matched) \cup updated]

\* Task.findOneAndUpdate({ _id: id, userId }, {...}, { new: true }): the
\* updated document (none when nothing matched) and the collection afterwards
updateTask(st, userId, id, payload) ==
  LET matched == MatchIdAndOwner(st, userId, id)
      updated == {ApplyUpdate(t, payload) : t \in matched}
  IN [doc |-> updated, tasks |-> (st.tasks \ matched) \cup updated]

\* Task.findOneAndDelete({ _id: id, userId }): the deleted document (none
\* when nothing matched) and the collection afterwards
deleteTask(st, userId, id) ==
  LET matched == MatchIdAndOwner(st, userId, id)
  IN [doc |-> matched, tasks |-> st.tasks \ matched]

\* Math.round(completed / total * 100)
RoundPercent(completed, total) == (200 * completed + total) \div (2 * total)

\* faulty variant: the aggregations and the count without { $match: { userId } }
getStatsOfEveryone(st, userId) ==
  LET mine == st.tasks
      totalTasks == Cardinality(mine)
      statusBreakdown ==
        {[_id |-> v, count |-> Cardinality({t \in mine : t.status = v})] :
           v \in {t.status : t \in mine}}
      priorityBreakdown ==
        {[_id |-> v, count |-> Cardinality({t \in mine : t.priority = v})] :
           v \in {t.priority : t \in mine}}
      completedTasks == Cardinality({t \in mine : t.status = "completed"})
  IN [totalTasks |-> totalTasks,
      completionRate |-> IF totalTasks > 0 THEN RoundPercent(completedTasks, totalTasks) ELSE 0,
      statusBreakdown |-> statusBreakdown,
      priorityBreakdown |-> priorityBreakdown]

\* the two aggregations and the count of getStats
getStats(st, userId) ==
  LET mine == {t \in st.tasks : t.userId = userId}
      totalTasks == Cardinality(mine)
      statusBreakdown ==
        {[_id |-> v, count |-> Cardinality({t \in mine : t.status = v})] :
           v \in {t.status : t \in mine}}
      priorityBreakdown ==
        {[_id |-> v, count |-> Cardinality({t \in mine : t.priority = v})] :
           v \in {t.priority : t \in mine}}
      completedTasks == Cardinality({t \in mine : t.status = "completed"})
  IN [totalTasks |-> totalTasks,
      completionRate |-> IF totalTasks > 0 THEN RoundPercent(completedTasks, totalTasks) ELSE 0,
      statusBreakdown |-> statusBreakdown,
      priorityBreakdown |-> priorityBreakdown]

(* --------------------------- task controllers -------------------------- *)
\* the payload the create and update controllers build from req.body
Payload(body) ==
  [title |-> Trimmed(body, "title"),
   description |-> Trimmed(body, "description"),
   status |-> Field(body, "status"),
   priority |-> Field(body, "priority"),
   dueDate |-> DueDateOrUndefined(body)]

TaskNotFound(st) == Reply(st, 404, "Task not found", NoBody)

\* taskController.getAll
getAll(st, user, query) == Reply(st, 200, "", listTasks(st, user.id, query))

\* faulty variant: a read that calls the deleting query
getOneRemoving(st, user, id) ==
  LET result == deleteTask(st, user.id, id)
      after == [st EXCEPT !.tasks = result.tasks]
  IN IF result.doc = {} THEN TaskNotFound(after)
     ELSE Reply(after, 200, "", CHOOSE t \in result.doc : TRUE)

\* taskController.getOne
getOne(st, user, id) ==
  LET found == getTask(st, user.id, id)
  IN IF found = {} THEN TaskNotFound(st)
     ELSE Reply(st, 200, "", CHOOSE t \in found : TRUE)

\* taskController.create
create(st, user, body) ==
  LET task == createTask(st, user.id, Payload(body))
  IN Reply([st EXCEPT !.tasks = st.tasks \cup {task}, !.taskSeq = st.taskSeq + 1],
           201, "", task)

\* faulty variant: the update controller passing the whole body, userId included
updateWithBodyUserId(st, user, id, body) ==
  LET result == updateTask(st, user.id, id, Payload(body))
      moved == {IF Has(body, "userId") THEN [t EXCEPT !.userId = body.userId] ELSE t :
                  t \in result.doc}
      after == [st EXCEPT !.tasks = (result.tasks \ result.doc) \cup moved]
  IN IF result.doc = {} THEN TaskNotFound(after)
     ELSE Reply(after, 200, "", CHOOSE t \in moved : TRUE)

\* taskController.update
update(st, user, id, body) ==
  LET result == updateTask(st, user.id, id, Payload(body))
      after == [st EXCEPT !.tasks = result.tasks]
  IN IF result.doc = {} THEN TaskNotFound(after)
     ELSE Reply(after, 200, "", CHOOSE t \in result.doc : TRUE)

\* taskController.remove
remove(st, user, id) ==
  LET result == deleteTask(st, user.id, id)
      after == [st EXCEPT !.tasks = result.tasks]
  IN IF result.doc = {} THEN TaskNotFound(after)
     ELSE Reply(after, 200, "Task deleted successfully", NoBody)

\* taskController.summary
summary(st, user) == Reply(st, 200, "", getStats(st, user.id))

(* ------------------------------ task routes ---------------------------- *)
\* router.get('/', validate(list), authenticateToken, getAll)
GetAllRoute(st, header, query) ==
  LET auth == authenticateToken(st, header)
  IN IF ~ListValid(query) THEN ValidationFailed(st)
     ELSE IF ~auth.ok THEN GateRejected(st, auth)
     ELSE getAll(st, auth.user, query)

\* router.get('/:id', validate(get), authenticateToken, getOne)
GetOneRoute(st, header, id) ==
  LET auth == authenticateToken(st, header)
  IN IF ~IsMongoId(id) THEN ValidationFailed(st)
     ELSE IF ~auth.ok THEN GateRejected(st, auth)
     ELSE getOne(st, auth.user, id)

\* router.post('/', validate(create), authenticateToken, create)
CreateRoute(st, header, body) ==
  LET auth == authenticateToken(st, header)
  IN IF ~CreateValid(body) THEN ValidationFailed(st)
     ELSE IF ~auth.ok THEN GateRejected(st, auth)
     ELSE create(st, auth.user, body)

\* router.put('/:id', validate(update), authenticateToken, update)
UpdateRoute(st, header, id, body) ==
  LET auth == authenticateToken(st, header)
  IN IF ~UpdateValid(id, body) THEN ValidationFailed(st)
     ELSE IF ~auth.ok THEN GateRejected(st, auth)
     ELSE update(st, auth.user, id, body)

\* router.delete('/:id', validate(remove), authenticateToken, remove)
RemoveRoute(st, header, id) ==
  LET auth == authenticateToken(st, header)
  IN IF ~IsMongoId(id) THEN ValidationFailed(st)
     ELSE IF ~auth.ok THEN GateRejected(st, auth)
     ELSE remove(st, auth.user, id)

\* router.get('/stats/summary', authenticateToken, summary)
SummaryRoute(st, header) ==
  LET auth == authenticateToken(st, header)
  IN IF ~auth.ok THEN GateRejected(st, auth) ELSE summary(st, auth.user)

(* ------------------------------- inputs -------------------------------- *)
alex == <<"a", "l", "e", "x">>
bruce == <<"b", "r", "u", "c", "e">>
aMail == <<"a", "@", "x", ".", "i", "o">>
aMailUpper == <<"A", "@", "x", ".", "i", "o">>
bMail == <<"b", "@", "x", ".", "i", "o">>
password == <<"s", "e", "c", "r", "e", "t">>
otherPassword == <<"w", "r", "o", "n", "g", "1">>
titleOne == <<"t", "1">>
titleTwo == <<"t", "2">>

Usernames == {alex, bruce}
Emails == {aMail, aMailUpper, bMail}
RegisterBodies ==
  [username : Usernames, email : Emails, password : {password}]
    \cup {[username |-> <<"a", "l">>, email |-> aMail, password |-> password],
          [username |-> alex, email |-> <<"b", "a", "d">>, password |-> password],
          [username |-> alex, email |-> aMail, password |-> <<"1", "2", "3">>]}
LoginBodies ==
  [email : Emails, password : {password, otherPassword}]
    \cup {[email |-> <<"b", "a", "d">>, password |-> password],
          [email |-> aMail, password |-> <<"1", "2", "3">>]}

Secrets == {"test-secret", NoSecret}

\* a string that is no JWT, and a JWT signed with another key
Garbled == [userId |-> 0, iat |-> 0, exp |-> 0, sig |-> "garbage"]
Forged(time) == [userId |-> 1, iat |-> time, exp |-> time + TokenTTL, sig |-> "other-secret"]

\* every Authorization header a client can send
AllHeaders ==
  {NoHeader, SchemeOnly("Bearer")}
    \cup {Header("Bearer", t) : t \in issued \cup {Garbled, Forged(now)}}
    \cup {Header("Basic", t) : t \in issued}

\* the headers the task requests are sent with
Headers == {NoHeader} \cup {Header("Bearer", t) : t \in issued}

IdParams == {ObjectId(n) : n \in 1..(MaxTasks + 1)} \cup {NotAnObjectId}

ListQueries ==
  {[sortOrder |-> "desc"],
   [sortOrder |-> "asc", status |-> "completed"],
   [sortOrder |-> "asc", sortBy |-> "title"]}

CreateBodies ==
  {[title |-> titleOne],
   [title |-> <<" ">> \o titleTwo, description |-> <<"d">>, status |-> "completed",
    priority |-> "high", dueDate |-> "2026-01-01"],
   [title |-> <<" ">>]}

\* update bodies; some carry a userId field
UpdateBodies ==
  {[status |-> "completed", userId |-> 2],
   [priority |-> "urgent"]}

\* PUT requests: every id with a valid body, and the invalid ones
UpdateRequests ==
  {r \in IdParams \X UpdateBodies : UpdateValid(r[1], r[2])}
    \cup {<<ObjectId(1), [priority |-> "urgent"]>>,
          <<NotAnObjectId, [status |-> "completed", userId |-> 2]>>}

(* ------------------------------- actions ------------------------------- *)
NoRequest == [route |-> "none", status |-> 0, message |-> "", id |-> 0, token |-> NoToken]

\* the browser before anyone has logged in: no user, no default
\* Authorization header, an empty task list, nothing loading
NoSession ==
  [user |-> NoUser, authLoading |-> FALSE, header |-> NoToken,
   tasks |-> <<>>, loading |-> FALSE, error |-> ""]

Init ==
  /\ users = {}
  /\ userSeq = 0
  /\ tasks = {}
  /\ taskSeq = 0
  /\ now = 0
  /\ jwtSecret \in Secrets
  /\ issued = {}
  /\ localStorage = NoToken
  /\ last = NoRequest
  /\ inflight = {}
  /\ client = NoSession
  /\ calls = {}

\* The server answers: the store becomes what the handler left, and the
\* request and response are recorded.
Respond(out, route, id, token) ==
  /\ users' = out.users
  /\ userSeq' = out.userSeq
  /\ tasks' = out.tasks
  /\ taskSeq' = out.taskSeq
  /\ last' = [route |-> route, status |-> out.status, message |-> out.message,
              id |-> id.oid, token |-> token]

\* A register or login response hands its token to the client.
Issue(out, ok) ==
  /\ out.status = ok => Cardinality(issued \cup {out.body.token}) <= MaxTokens
  /\ issued' = IF out.status = ok THEN issued \cup {out.body.token} ELSE issued

Returned(out, ok) == IF out.status = ok THEN out.body.token ELSE NoToken

Register(body) ==
  LET out == RegisterRoute(Store, body)
  IN /\ out.userSeq <= MaxUsers
     /\ Issue(out, 201)
     /\ Respond(out, "register", NotAnObjectId, Returned(out, 201))
     /\ UNCHANGED <<now, jwtSecret, localStorage, inflight, client, calls>>

Login(body) ==
  LET out == LoginRoute(Store, body)
  IN /\ Issue(out, 200)
     /\ Respond(out, "login", NotAnObjectId, Returned(out, 200))
     /\ UNCHANGED <<now, jwtSecret, localStorage, inflight, client, calls>>

GetMe(header) ==
  /\ Respond(MeRoute(Store, header), "me", NotAnObjectId, HeaderToken(header))
  /\ UNCHANGED <<now, jwtSecret, issued, localStorage, inflight, client, calls>>

GetAll(header, query) ==
  /\ Respond(GetAllRoute(Store, header, query), "getAll", NotAnObjectId, HeaderToken(header))
  /\ UNCHANGED <<now, jwtSecret, issued, localStorage, inflight, client, calls>>

GetOne(header, id) ==
  /\ Respond(GetOneRoute(Store, header, id), "getOne", id, HeaderToken(header))
  /\ UNCHANGED <<now, jwtSecret, issued, localStorage, inflight, client, calls>>

Create(header, body) ==
  LET out == CreateRoute(Store, header, body)
  IN /\ out.taskSeq <= MaxTasks
     /\ Respond(out, "create", NotAnObjectId, HeaderToken(header))
     /\ UNCHANGED <<now, jwtSecret, issued, localStorage, inflight, client, calls>>

Update(header, id, body) ==
  /\ Respond(UpdateRoute(Store, header, id, body), "update", id, HeaderToken(header))
  /\ UNCHANGED <<now, jwtSecret, issued, localStorage, inflight, client, calls>>

Remove(header, id) ==
  /\ Respond(RemoveRoute(Store, header, id), "remove", id, HeaderToken(header))
  /\ UNCHANGED <<now, jwtSecret, issued, localStorage, inflight, client, calls>>

Summary(header) ==
  /\ Respond(SummaryRoute(Store, header), "summary", NotAnObjectId, HeaderToken(header))
  /\ UNCHANGED <<now, jwtSecret, issued, localStorage, inflight, client, calls>>

\* AuthContext login/register: the client keeps a token it was handed
StoreToken(token) ==
  /\ token \in issued
  /\ localStorage' = token
  /\ UNCHANGED <<users, userSeq, tasks, taskSeq, now, jwtSecret, issued, last, inflight, client, calls>>

\* AuthContext logout: only the browser forgets the token
Logout ==
  /\ localStorage # NoToken
  /\ localStorage' = NoToken
  /\ last' = [NoRequest EXCEPT !.route = "logout", !.token = localStorage]
  /\ UNCHANGED <<users, userSeq, tasks, taskSeq, now, jwtSecret, issued, inflight, client, calls>>

\* a day passes
Tick ==
  /\ now < MaxTime
  /\ now' = now + 1
  /\ UNCHANGED <<users, userSeq, tasks, taskSeq, jwtSecret, issued, localStorage, last, inflight,
               client, calls>>

\* a user document is removed from the users collection; no route does this,
\* the gate's "user not found" branch answers for it
UserRemoved(id) ==
  /\ FindById(users, id) # {}
  /\ users' = users \ FindById(users, id)
  /\ UNCHANGED <<userSeq, tasks, taskSeq, now, jwtSecret, issued, localStorage, last, inflight,
               client, calls>>

TaskRequests ==
  \/ \E h \in Headers, q \in ListQueries : GetAll(h, q)
  \/ \E h \in Headers, id \in IdParams : GetOne(h, id)
  \/ \E h \in Headers, b \in CreateBodies : Create(h, b)
  \/ \E h \in Headers, r \in UpdateRequests : Update(h, r[1], r[2])
  \/ \E h \in Headers, id \in IdParams : Remove(h, id)
  \/ \E h \in Headers : Summary(h)

\* the registrations and logins of the two users of the task API
SessionRegisterBodies ==
  {[username |-> alex, email |-> aMail, password |-> password],
   [username |-> bruce, email |-> bMail, password |-> password],
   [username |-> <<"a", "l">>, email |-> aMail, password |-> password]}
SessionLoginBodies ==
  [email : {aMail, bMail}, password : {password, otherPassword}]

\* the task API used by registered users
Next ==
  \/ \E b \in SessionRegisterBodies : Register(b)
  \/ TaskRequests

Spec == Init /\ [][Next]_vars

\* accounts: registration, login and the current-user route
NextUsers ==
  \/ \E b \in RegisterBodies : Register(b)
  \/ \E b \in LoginBodies : Login(b)
  \/ \E h \in AllHeaders : GetMe(h)

SpecUsers == Init /\ [][NextUsers]_vars

\* sessions over time: tokens are issued, stored, forgotten and expire
NextAuth ==
  \/ \E b \in SessionRegisterBodies : Register(b)
  \/ \E b \in SessionLoginBodies : Login(b)
  \/ \E t \in issued : StoreToken(t)
  \/ Logout
  \/ Tick
  \/ \E h \in Headers \cup {Header("Bearer", Garbled)} : GetMe(h)

SpecAuth == Init /\ [][NextAuth]_vars

\* accounts whose records can disappear from the store
NextStore ==
  \/ \E b \in SessionRegisterBodies : Register(b)
  \/ \E b \in SessionLoginBodies : Login(b)
  \/ \E id \in 1..MaxUsers : UserRemoved(id)
  \/ \E h \in AllHeaders : GetMe(h)

SpecStore == Init /\ [][NextStore]_vars

(* ------------------- requests interleaved at their awaits -------------- *)
\* A request that has reached a database call waits in inflight; once it is
\* answered its record stays there with the answer.
Waiting(kind, phase) == {r \in inflight : r.kind = kind /\ r.phase = phase}

Answered(kind) == {r \in inflight : r.kind = kind /\ r.phase = "done"}

Suspend(kind, phase, token, user, id, body) ==
  /\ Cardinality(inflight) < MaxRequests
  /\ inflight' = inflight \cup
       {[n |-> Cardinality(inflight) + 1, kind |-> kind, phase |-> phase, token |-> token,
         user |-> user, id |-> id, body |-> body, status |-> 0, answer |-> NoBody,
         order |-> 0]}
  /\ UNCHANGED <<users, userSeq, tasks, taskSeq, now, jwtSecret, issued, localStorage, last,
                 client, calls>>

\* the request's record once the response is sent
Finish(r, out) ==
  inflight' = (inflight \ {r}) \cup
    {[r EXCEPT !.phase = "done", !.status = out.status, !.answer = out.body,
               !.order = Cardinality({q \in inflight : q.phase = "done"}) + 1]}

DuplicateKey == "E11000 duplicate key error collection: users"

\* faulty variant: the save on a collection without the unique indexes
saveUserUnindexed(st, username, email, plain) ==
  LET user == NewUser(st.userSeq + 1, username, email, plain)
      saved == [st EXCEPT !.users = st.users \cup {user}, !.userSeq = st.userSeq + 1]
  IN IF st.secret = NoSecret THEN Thrown(saved, SecretMissing)
     ELSE Reply(saved, 201, "User registered successfully",
                [token |-> JwtSign(user._id, st.secret, st.time), user |-> PublicUser(user)])

\* registerUser from user.save() on: the unique indexes on username and email
\* refuse a duplicate, then the secret is read and the token signed
saveUser(st, username, email, plain) ==
  LET user == NewUser(st.userSeq + 1, username, email, plain)
      saved == [st EXCEPT !.users = st.users \cup {user}, !.userSeq = st.userSeq + 1]
  IN IF \E u \in st.users : u.username = user.username \/ u.email = user.email
     THEN Thrown(st, DuplicateKey)
     ELSE IF st.secret = NoSecret THEN Thrown(saved, SecretMissing)
     ELSE Reply(saved, 201, "User registered successfully",
                [token |-> JwtSign(user._id, st.secret, st.time), user |-> PublicUser(user)])

\* POST /api/auth/register up to the await of User.findOne: a valid body
\* that matches no user goes on to the save
RegisterLookup(body) ==
  LET b == RegisterSanitized(body)
  IN /\ RegisterValid(body)
     /\ FindByEmailOrUsername(users, b.email, b.username) = {}
     /\ Suspend("register", "save", NoToken, NoUser, NotAnObjectId, b)

\* ... and from the await of user.save() to the response
RegisterSave(r) ==
  LET out == saveUser(Store, r.body.username, r.body.email, r.body.password)
  IN /\ r \in Waiting("register", "save")
     /\ out.userSeq <= MaxUsers
     /\ Issue(out, 201)
     /\ Respond(out, "register", NotAnObjectId, Returned(out, 201))
     /\ Finish(r, out)
     /\ UNCHANGED <<now, jwtSecret, localStorage, client, calls>>

\* PUT /api/tasks/:id up to the await of User.findById in the gate
UpdateGate(header, id, body) ==
  LET auth == authenticateToken(Store, header)
  IN /\ UpdateValid(id, body)
     /\ auth.ok
     /\ Suspend("update", "write", HeaderToken(header), auth.user, id, body)

\* ... and its findOneAndUpdate with the response
UpdateWrite(r) ==
  LET out == update(Store, r.user, r.id, r.body)
  IN /\ r \in Waiting("update", "write")
     /\ Respond(out, "update", r.id, r.token)
     /\ Finish(r, out)
     /\ UNCHANGED <<now, jwtSecret, issued, localStorage, client, calls>>

\* the three queries of getStats, each on the collection as it is when the
\* query runs
statusAggregate(st, userId) ==
  LET mine == {t \in st.tasks : t.userId = userId}
  IN {[_id |-> v, count |-> Cardinality({t \in mine : t.status = v})] :
        v \in {t.status : t \in mine}}

priorityAggregate(st, userId) ==
  LET mine == {t \in st.tasks : t.userId = userId}
  IN {[_id |-> v, count |-> Cardinality({t \in mine : t.priority = v})] :
        v \in {t.priority : t \in mine}}

countDocuments(st, userId) == Cardinality({t \in st.tasks : t.userId = userId})

CountOf(stats, v) ==
  IF \E s \in stats : s._id = v THEN (CHOOSE s \in stats : s._id = v).count ELSE 0

\* what getStats returns from the results of its three queries
statsResult(stats, priorityStats, totalTasks) ==
  [totalTasks |-> totalTasks,
   completionRate |-> IF totalTasks > 0
                      THEN RoundPercent(CountOf(stats, "completed"), totalTasks) ELSE 0,
   statusBreakdown |-> stats,
   priorityBreakdown |-> priorityStats]

\* GET /api/tasks/stats/summary up to the await of the first aggregation
SummaryGate(header) ==
  LET auth == authenticateToken(Store, header)
  IN /\ auth.ok
     /\ Suspend("summary", "status", HeaderToken(header), auth.user, NotAnObjectId, NoBody)

\* the status aggregation returns
StatsStatus(r) ==
  /\ r \in Waiting("summary", "status")
  /\ inflight' = (inflight \ {r}) \cup
       {[r EXCEPT !.phase = "priority",
                  !.body = [stats |-> statusAggregate(Store, r.user.id)]]}
  /\ UNCHANGED <<users, userSeq, tasks, taskSeq, now, jwtSecret, issued, localStorage, last,
                 client, calls>>

\* the priority aggregation returns
StatsPriority(r) ==
  /\ r \in Waiting("summary", "priority")
  /\ inflight' = (inflight \ {r}) \cup
       {[r EXCEPT !.phase = "count",
                  !.body = [stats |-> r.body.stats,
                            priorityStats |-> priorityAggregate(Store, r.user.id)]]}
  /\ UNCHANGED <<users, userSeq, tasks, taskSeq, now, jwtSecret, issued, localStorage, last,
                 client, calls>>

\* the count returns, and the response is sent
StatsCount(r) ==
  LET out == Reply(Store, 200, "",
                   statsResult(r.body.stats, r.body.priorityStats,
                               countDocuments(Store, r.user.id)))
  IN /\ r \in Waiting("summary", "count")
     /\ Respond(out, "summary", NotAnObjectId, r.token)
     /\ Finish(r, out)
     /\ UNCHANGED <<now, jwtSecret, issued, localStorage, client, calls>>

\* the inputs of the interleaved requests
RaceRegisterBodies ==
  {[username |-> alex, email |-> aMail, password |-> password],
   [username |-> alex, email |-> bMail, password |-> password],
   [username |-> bruce, email |-> aMail, password |-> password]}

RaceUpdateBodies == {[status |-> "completed"], [priority |-> "high"]}

Bearers == {Header("Bearer", t) : t \in issued}

\* registrations of several clients served at once: each runs from one
\* await to the next, and the others run in between
NextRegisterRace ==
  \/ \E b \in RaceRegisterBodies : Register(b)
  \/ \E b \in RaceRegisterBodies : RegisterLookup(b)
  \/ \E r \in inflight : RegisterSave(r)

SpecRegisterRace == Init /\ [][NextRegisterRace]_vars

\* updates of one user's tasks served at once
NextUpdateRace ==
  \/ Register([username |-> alex, email |-> aMail, password |-> password])
  \/ \E h \in Bearers : Create(h, [title |-> titleOne])
  \/ \E h \in Bearers, id \in IdParams, b \in RaceUpdateBodies : UpdateGate(h, id, b)
  \/ \E r \in inflight : UpdateWrite(r)

SpecUpdateRace == Init /\ [][NextUpdateRace]_vars

\* a summary served while the same user's tasks are created, completed and
\* deleted
NextStatsRace ==
  \/ Register([username |-> alex, email |-> aMail, password |-> password])
  \/ \E h \in Bearers : Create(h, [title |-> titleOne])
  \/ \E h \in Bearers, id \in IdParams : Update(h, id, [status |-> "completed"])
  \/ \E h \in Bearers, id \in IdParams : Remove(h, id)
  \/ \E h \in Bearers : SummaryGate(h)
  \/ \E r \in inflight : StatsStatus(r)
  \/ \E r \in inflight : StatsPriority(r)
  \/ \E r \in inflight : StatsCount(r)

SpecStatsRace == Init /\ [][NextStatsRace]_vars

(* ------------------------------ the browser ---------------------------- *)
\* The auth context's and the task hook's state with the stored token, as
\* the client code reads and writes them together.
Browser == [client |-> client, localStorage |-> localStorage]

\* api/config.ts request interceptor: the stored token, else the default header
requestInterceptor(b) ==
  IF b.localStorage # NoToken THEN Header("Bearer", b.localStorage)
  ELSE IF b.client.header # NoToken THEN Header("Bearer", b.client.header)
  ELSE NoHeader

\* faulty variant: a logout that leaves the stored token in place
logoutKeepingToken(b) ==
  [b EXCEPT !.client.user = NoUser, !.client.header = NoToken]

\* AuthContext logout
logout(b) ==
  [client |-> [b.client EXCEPT !.user = NoUser, !.header = NoToken],
   localStorage |-> NoToken]

\* axios resolves a 2xx response and rejects any other
Resolved(res) == res.status \in {200, 201}

\* api/config.ts response interceptor: on 401 or 403 the token and the
\* default header are cleared and 'tokenExpired' is dispatched, whose
\* listener calls logout
responseInterceptor(b, res) == IF res.status \in {401, 403} THEN logout(b) ELSE b

\* AuthContext login and register after the await
loginSettled(b, res) ==
  IF Resolved(res)
  THEN [client |-> [b.client EXCEPT !.user = res.body.user, !.header = res.body.token],
        localStorage |-> res.body.token]
  ELSE b

\* AuthContext verifyToken after the await
verifyTokenSettled(b, res) ==
  LET after == IF Resolved(res) THEN [b EXCEPT !.client.user = res.body.user] ELSE logout(b)
  IN [after EXCEPT !.client.authLoading = FALSE]

isTokenExpired(token, time) == token.exp < time

\* AuthContext checkTokenValidity
checkTokenValidity(b, time) ==
  IF b.localStorage # NoToken /\ isTokenExpired(b.localStorage, time) THEN logout(b) ELSE b

\* useTasks fetchTasks after the await
fetchTasksSettled(b, res) ==
  [b EXCEPT !.client.tasks = IF Resolved(res) THEN res.body.list ELSE @,
            !.client.error = IF Resolved(res) THEN @ ELSE res.message,
            !.client.loading = FALSE]

\* useTasks createTask after the await
createTaskSettled(b, res) ==
  IF Resolved(res) THEN [b EXCEPT !.client.tasks = <<res.body>> \o @] ELSE b

\* faulty variant: an update that puts the response in every entry
updateTaskSettledEverywhere(b, id, res) ==
  IF Resolved(res)
  THEN [b EXCEPT !.client.tasks = [i \in 1..Len(@) |-> res.body]]
  ELSE b

\* useTasks updateTask after the await
updateTaskSettled(b, id, res) ==
  IF Resolved(res)
  THEN [b EXCEPT !.client.tasks =
          [i \in 1..Len(@) |-> IF @[i]._id = id.oid THEN res.body ELSE @[i]]]
  ELSE b

\* useTasks deleteTask after the await
deleteTaskSettled(b, id, res) ==
  IF Resolved(res)
  THEN [b EXCEPT !.client.tasks = SelectSeq(@, LAMBDA t : t._id # id.oid)]
  ELSE b

\* the response reaches the browser: the interceptor, then the caller
Settle(b, c) ==
  LET seen == responseInterceptor(b, c)
  IN CASE c.kind \in {"login", "register"} -> loginSettled(seen, c)
       [] c.kind = "verifyToken" -> verifyTokenSettled(seen, c)
       [] c.kind = "fetchTasks" -> fetchTasksSettled(seen, c)
       [] c.kind = "createTask" -> createTaskSettled(seen, c)
       [] c.kind = "updateTask" -> updateTaskSettled(seen, c.id, c)
       [] c.kind = "deleteTask" -> deleteTaskSettled(seen, c.id, c)

\* the route a call addresses, served on the store as it is then
ServeCall(st, c) ==
  CASE c.kind = "login" -> LoginRoute(st, c.body)
    [] c.kind = "register" -> RegisterRoute(st, c.body)
    [] c.kind = "verifyToken" -> MeRoute(st, c.header)
    [] c.kind = "fetchTasks" -> GetAllRoute(st, c.header, c.body)
    [] c.kind = "createTask" -> CreateRoute(st, c.header, c.body)
    [] c.kind = "updateTask" -> UpdateRoute(st, c.header, c.id, c.body)
    [] c.kind = "deleteTask" -> RemoveRoute(st, c.header, c.id)

InFlight(kind) == {c \in calls : c.kind = kind /\ c.phase # "done"}

\* a call leaves the browser, with the header the request interceptor gives it
Call(kind, id, body) ==
  [n |-> CHOOSE k \in 1..MaxCalls :
            /\ \A c \in calls : c.kind = kind /\ c.id = id => c.n # k
            /\ \A j \in 1..(k - 1) : \E c \in calls : c.kind = kind /\ c.id = id /\ c.n = j,
   kind |-> kind, id |-> id, body |-> body, header |-> requestInterceptor(Browser),
   phase |-> "sent", status |-> 0, message |-> ""]

Send(kind, id, body) ==
  /\ Cardinality(calls) < MaxCalls
  /\ calls' = calls \cup {Call(kind, id, body)}
  /\ UNCHANGED <<users, userSeq, tasks, taskSeq, now, jwtSecret, issued, localStorage, last,
                 inflight>>

\* LoginForm and RegisterForm, shown while no user is set
SendLogin(body) ==
  /\ client.user = NoUser /\ ~client.authLoading
  /\ Send("login", NotAnObjectId, body)
  /\ UNCHANGED client

SendRegister(body) ==
  /\ client.user = NoUser /\ ~client.authLoading
  /\ Send("register", NotAnObjectId, body)
  /\ UNCHANGED client

\* useTasks fetchTasks up to the await; TaskList is shown while a user is set
SendFetchTasks(filters) ==
  /\ client.user # NoUser
  /\ Send("fetchTasks", NotAnObjectId, filters)
  /\ client' = [client EXCEPT !.loading = TRUE, !.error = ""]

SendCreateTask(body) ==
  /\ client.user # NoUser
  /\ Send("createTask", NotAnObjectId, body)
  /\ UNCHANGED client

SendUpdateTask(id, body) ==
  /\ client.user # NoUser
  /\ Send("updateTask", id, body)
  /\ UNCHANGED client

SendDeleteTask(id) ==
  /\ client.user # NoUser
  /\ Send("deleteTask", id, NoBody)
  /\ UNCHANGED client

\* response.data: the JSON array of a task list is held as a record
ResponseData(c, out) ==
  IF c.kind = "fetchTasks" /\ out.status = 200 THEN [list |-> out.body] ELSE out.body

\* the server handles a call and its response sets out
Serve(c) ==
  LET out == ServeCall(Store, c)
      ok == IF c.kind = "register" THEN 201 ELSE 200
      hands == c.kind \in {"login", "register"}
  IN /\ c \in calls /\ c.phase = "sent"
     /\ out.userSeq <= MaxUsers /\ out.taskSeq <= MaxTasks
     /\ IF hands THEN Issue(out, ok) ELSE UNCHANGED issued
     /\ Respond(out, c.kind, c.id, IF hands THEN Returned(out, ok) ELSE HeaderToken(c.header))
     /\ calls' = (calls \ {c}) \cup
          {[c EXCEPT !.phase = "answered", !.status = out.status, !.message = out.message,
                     !.body = ResponseData(c, out)]}
     /\ UNCHANGED <<now, jwtSecret, localStorage, inflight, client>>

\* the response arrives; the record of a fetch is kept, any other is dropped
Receive(c) ==
  LET after == Settle(Browser, c)
  IN /\ c \in calls /\ c.phase = "answered"
     /\ client' = after.client
     /\ localStorage' = after.localStorage
     /\ calls' = (calls \ {c}) \cup
          (IF c.kind = "fetchTasks" THEN {[c EXCEPT !.phase = "done"]} ELSE {})
     /\ UNCHANGED <<users, userSeq, tasks, taskSeq, now, jwtSecret, issued, last, inflight>>

\* the logout button, shown while a user is set
ClickLogout ==
  /\ client.user # NoUser
  /\ client' = logout(Browser).client
  /\ localStorage' = logout(Browser).localStorage
  /\ last' = [NoRequest EXCEPT !.route = "logout", !.token = localStorage]
  /\ UNCHANGED <<users, userSeq, tasks, taskSeq, now, jwtSecret, issued, inflight, calls>>

\* App's five-minute interval, running while a user is set
PeriodicCheck ==
  /\ client.user # NoUser
  /\ client' = checkTokenValidity(Browser, now).client
  /\ localStorage' = checkTokenValidity(Browser, now).localStorage
  /\ last' = [NoRequest EXCEPT !.route = "check", !.token = localStorage]
  /\ UNCHANGED <<users, userSeq, tasks, taskSeq, now, jwtSecret, issued, inflight, calls>>

\* the page is loaded again: AuthProvider's effect verifies a stored token;
\* the calls of the page before are gone
Startup ==
  /\ client' = [NoSession EXCEPT !.header = localStorage,
                                 !.authLoading = localStorage # NoToken]
  /\ calls' = IF localStorage = NoToken THEN {}
              ELSE {[n |-> 1, kind |-> "verifyToken", id |-> NotAnObjectId,
                     body |-> NoBody, header |-> Header("Bearer", localStorage),
                     phase |-> "sent", status |-> 0, message |-> ""]}
  /\ last' = [NoRequest EXCEPT !.route = "startup", !.token = localStorage]
  /\ UNCHANGED <<users, userSeq, tasks, taskSeq, now, jwtSecret, issued, localStorage, inflight>>

alexBody == [username |-> alex, email |-> aMail, password |-> password]

FetchFilters ==
  {[sortBy |-> "createdAt", sortOrder |-> "desc"],
   [status |-> "completed", sortBy |-> "createdAt", sortOrder |-> "desc"]}

\* the ids of the tasks the list shows: TaskItem offers update and delete
Shown == {ObjectId(client.tasks[i]._id) : i \in 1..Len(client.tasks)}

\* one user's task list in the browser
NextHook ==
  \/ SendRegister(alexBody)
  \/ \E f \in FetchFilters : SendFetchTasks(f)
  \/ SendCreateTask([title |-> titleOne])
  \/ \E id \in Shown : SendUpdateTask(id, [status |-> "completed"])
  \/ \E id \in Shown : SendDeleteTask(id)
  \/ \E c \in calls : Serve(c)
  \/ \E c \in calls : Receive(c)

SpecHook == Init /\ [][NextHook]_vars

\* the browser is left idle until a token issued before has run out
Idle ==
  /\ now + TokenTTL <= MaxTime
  /\ now' = now + TokenTTL
  /\ UNCHANGED <<users, userSeq, tasks, taskSeq, jwtSecret, issued, localStorage, last, inflight,
                 client, calls>>

\* one browser's session over time
NextSession ==
  \/ SendRegister(alexBody)
  \/ \E p \in {password, otherPassword} : SendLogin([email |-> aMail, password |-> p])
  \/ SendFetchTasks([sortBy |-> "createdAt", sortOrder |-> "desc"])
  \/ \E c \in calls : Serve(c)
  \/ \E c \in calls : Receive(c)
  \/ ClickLogout
  \/ PeriodicCheck
  \/ Startup
  \/ Idle

SpecSession == Init /\ [][NextSession]_vars

(* ===================== properties: task ownership ====================== *)
\* the requester the gate resolves a header to, and whether a task is theirs
OwnedByAnother(auth, id) ==
  /\ auth.ok
  /\ IsMongoId(id)
  /\ \E t \in tasks : t._id = id.oid /\ t.userId # auth.user.id

\* a well-formed id that matches no task
UnusedId == ObjectId(taskSeq + 1)

\* list queries with every combination of valid filters
FilterQueries ==
  {[sortOrder |-> "desc"]}
    \cup {[sortOrder |-> "desc", status |-> v] : v \in StatusValues}
    \cup {[sortOrder |-> "desc", priority |-> v] : v \in PriorityValues}
    \cup {[sortOrder |-> "desc", status |-> v, priority |-> w] :
            v \in StatusValues, w \in PriorityValues}

MatchesFilters(t, q) ==
  /\ Has(q, "status") => t.status = q.status
  /\ Has(q, "priority") => t.priority = q.priority

\* C1: GET /api/tasks/:id by an authenticated user for a task of another user
\* answers 404 'Task not found' with no task content, exactly as it answers
\* for a well-formed id that matches no task.
C1_OtherUsersTaskReadsAsNotFound ==
  \A h \in AllHeaders, id \in IdParams :
    LET out == GetOneRoute(Store, h, id)
    IN OwnedByAnother(authenticateToken(Store, h), id)
         => /\ out.status = 404
            /\ out.message = "Task not found"
            /\ out.body = NoBody
            /\ out = GetOneRoute(Store, h, UnusedId)

C1_Witness ==
  /\ last.route = "getOne"
  /\ last.status = 404
  /\ last.token \in issued
  /\ FindById(users, last.token.userId) # {}
  /\ \E t \in tasks : t._id = last.id /\ t.userId # last.token.userId

\* C2: PUT and DELETE /api/tasks/:id by an authenticated user for a task of
\* another user leave the task collection as it was and answer as for an id
\* that matches no task: 404 (for PUT, whenever the body is valid).
C2_OtherUsersTaskIsNotWritten ==
  \A h \in AllHeaders, id \in IdParams, body \in UpdateBodies :
    LET put == UpdateRoute(Store, h, id, body)
        del == RemoveRoute(Store, h, id)
    IN OwnedByAnother(authenticateToken(Store, h), id)
         => /\ put.tasks = tasks
            /\ del.tasks = tasks
            /\ del.status = 404
            /\ UpdateValid(id, body) => put.status = 404
            /\ put = UpdateRoute(Store, h, UnusedId, body)
            /\ del = RemoveRoute(Store, h, UnusedId)

C2_Witness ==
  /\ last.route = "update"
  /\ last.status = 404
  /\ last.token \in issued
  /\ FindById(users, last.token.userId) # {}
  /\ \E t \in tasks : t._id = last.id /\ t.userId # last.token.userId /\ t.status = "pending"

\* C3: GET /api/tasks by user U returns exactly the existing tasks owned by U
\* that match the valid status/priority filters given.
C3_ListIsExactlyOwnTasks ==
  \A h \in AllHeaders, q \in FilterQueries :
    LET auth == authenticateToken(Store, h)
        out == GetAllRoute(Store, h, q)
    IN auth.ok
         => /\ out.status = 200
            /\ \A i \in 1..Len(out.body) :
                 /\ out.body[i] \in tasks
                 /\ out.body[i].userId = auth.user.id
                 /\ MatchesFilters(out.body[i], q)
            /\ \A t \in tasks :
                 t.userId = auth.user.id /\ MatchesFilters(t, q)
                   => \E i \in 1..Len(out.body) : out.body[i] = t

C3_Witness ==
  /\ last.route = "getAll"
  /\ last.status = 200
  /\ \E t \in tasks : t.userId = last.token.userId
  /\ \E t \in tasks : t.userId # last.token.userId

\* C4: no step changes the owner of an existing task, and a task that
\* appears was created by a create request of the identity that owns it.
C4_OwnerFixedAtCreation ==
  [][/\ \A t \in tasks, u \in tasks' : t._id = u._id => u.userId = t.userId
     /\ \A u \in tasks' :
          (\A t \in tasks : t._id # u._id)
            => last'.route = "create" /\ u.userId = last'.token.userId]_vars

C4_Witness ==
  /\ last.route = "update"
  /\ last.status = 200
  /\ last.token.userId = 1
  /\ \E t \in tasks : t._id = last.id /\ t.userId = 1 /\ t.status = "completed"

(* ===================== properties: the authentication gate ============= *)
\* the answers of a protected route to one header, over every path parameter,
\* query and body: all have the given status and message
EveryProtectedRoute(header, status, message) ==
  LET Is(out) == out.status = status /\ out.message = message
  IN /\ Is(MeRoute(Store, header))
     /\ Is(SummaryRoute(Store, header))
     /\ \A q \in ListQueries : Is(GetAllRoute(Store, header, q))
     /\ \A id \in IdParams : Is(GetOneRoute(Store, header, id))
     /\ \A b \in CreateBodies : Is(CreateRoute(Store, header, b))
     /\ \A r \in UpdateRequests : Is(UpdateRoute(Store, header, r[1], r[2]))
     /\ \A id \in IdParams : Is(RemoveRoute(Store, header, id))

\* no handler ran for the header on any protected route
NoHandlerRan(header) ==
  /\ ~MeRoute(Store, header).ran
  /\ ~SummaryRoute(Store, header).ran
  /\ \A q \in ListQueries : ~GetAllRoute(Store, header, q).ran
  /\ \A id \in IdParams : ~GetOneRoute(Store, header, id).ran
  /\ \A b \in CreateBodies : ~CreateRoute(Store, header, b).ran
  /\ \A r \in UpdateRequests : ~UpdateRoute(Store, header, r[1], r[2]).ran
  /\ \A id \in IdParams : ~RemoveRoute(Store, header, id).ran

\* C5: every request to a protected route without an Authorization header is
\* answered 401 'Access token required' whatever its parameters, query and
\* body; with a garbled token it is answered 403.
C5_MissingHeaderIs401 ==
  /\ EveryProtectedRoute(NoHeader, 401, "Access token required")
  /\ EveryProtectedRoute(Header("Bearer", Garbled), 403, "Invalid or expired token")

\* C6: every request to a protected route with a correctly signed token whose
\* expiry is at or before the current time is answered 403 'Invalid or
\* expired token', and its handler does not run.
C6_ExpiredTokenIs403 ==
  \A tok \in issued :
    tok.sig = jwtSecret /\ tok.exp <= now
      => /\ EveryProtectedRoute(Header("Bearer", tok), 403, "Invalid or expired token")
         /\ NoHandlerRan(Header("Bearer", tok))

\* C7: a token issued at time t is accepted by the gate at every time before
\* t + 7 days, whatever logouts, logins and registrations happened since;
\* from its expiry on it is refused.
C7_TokenLivesUntilExpiry ==
  \A tok \in issued :
    LET auth == authenticateToken(Store, Header("Bearer", tok))
    IN /\ now < tok.iat + TokenTTL => auth.ok /\ auth.user.id = tok.userId
       /\ now >= tok.iat + TokenTTL => ~auth.ok

C7_Witness ==
  /\ last.route = "logout"
  /\ last.token \in issued
  /\ now = last.token.iat + TokenTTL - 1
  /\ \E later \in issued : later.iat > last.token.iat /\ later.userId = last.token.userId
  /\ authenticateToken(Store, Header("Bearer", last.token)).ok

\* C8: a request with a correctly signed, unexpired token whose user id
\* matches no user record is answered 403, as a tampered or expired token is.
C8_UnknownUserIs403 ==
  \A tok \in issued :
    JwtVerify(tok, jwtSecret, now) /\ FindById(users, tok.userId) = {}
      => /\ authenticateToken(Store, Header("Bearer", tok)).status = 403
         /\ MeRoute(Store, Header("Bearer", tok)).status
              = MeRoute(Store, Header("Bearer", Forged(now))).status

(* ===================== properties: registration ======================== *)
\* the store as a handler's outcome leaves it
After(out) ==
  [Store EXCEPT !.users = out.users, !.userSeq = out.userSeq,
                !.tasks = out.tasks, !.taskSeq = out.taskSeq]

\* C9: the token of a 201 registration response, presented at once to
\* GET /api/auth/me, is accepted and resolves to the user the registration
\* created: the id, username and email of the registration response.
C9_RegisteredTokenResolvesToNewUser ==
  \A body \in RegisterBodies :
    LET out == RegisterRoute(Store, body)
        me == MeRoute(After(out), Header("Bearer", out.body.token))
    IN out.status = 201
         => /\ me.status = 200
            /\ me.body.user = out.body.user
            /\ \E u \in out.users \ users : PublicUser(u) = out.body.user

C9_Witness ==
  /\ last.route = "register"
  /\ last.status = 201
  /\ last.token \in issued
  /\ MeRoute(Store, Header("Bearer", last.token)).status = 200
  /\ MeRoute(Store, Header("Bearer", last.token)).body.user.id = userSeq

\* a registration body reuses a username or an email of the user store
Reuses(body) ==
  \E u \in users :
    u.username = Trim(body.username) \/ ToLowerCase(u.email) = ToLowerCase(Trim(body.email))

\* C10: a registration that reuses a username or an email of the user store
\* is answered 400 (with the conflict message when the body is valid) and
\* leaves the user store as it was; no two records share a username or email.
C10_DuplicateRegistrationConflicts ==
  /\ \A body \in RegisterBodies :
       LET out == RegisterRoute(Store, body)
       IN Reuses(body)
            => /\ out.status = 400
               /\ out.users = users
               /\ RegisterValid(body)
                    => out.message \in {"Email already registered", "Username already taken"}
  /\ \A u, v \in users : u # v => u.username # v.username /\ u.email # v.email

C10_Witness ==
  /\ last.route = "register"
  /\ last.status = 400
  /\ last.message = "Username already taken"
  /\ Cardinality(users) = MaxUsers

(* ===================== properties: login =============================== *)
\* login attempts with well-formed emails and passwords of every length
LoginProbes ==
  [email : Emails, password : {password, otherPassword, <<"1", "2", "3">>}]

UnknownEmail(body) == FindByEmail(users, body.email) = {}

WrongPassword(body) ==
  \E u \in FindByEmail(users, body.email) : ~ComparePassword(u, body.password)

\* C11: a login with an email of no user and a login with an existing email
\* and a wrong password, sent with the same password, get the same status,
\* message and body: 401 'Invalid credentials' when the password is well
\* formed.
C11_FailedLoginsLookAlike ==
  \A unknown, wrong \in LoginProbes :
    LET a == LoginRoute(Store, unknown)
        b == LoginRoute(Store, wrong)
    IN UnknownEmail(unknown) /\ WrongPassword(wrong) /\ unknown.password = wrong.password
         => /\ a.status = b.status /\ a.message = b.message /\ a.body = b.body
            /\ LoginValid(wrong) => b.status = 401 /\ b.message = "Invalid credentials"

C11_Witness ==
  /\ last.route = "login"
  /\ last.status = 401
  /\ Cardinality(users) = 1
  /\ \E unknown, wrong \in LoginProbes :
       UnknownEmail(unknown) /\ WrongPassword(wrong) /\ unknown.password = wrong.password

\* C12 as stated: a login with an existing email and a wrong password of any
\* length is answered 401 and issues no token.
C12_WrongPasswordIs401 ==
  \A body \in LoginProbes :
    WrongPassword(body)
      => LoginRoute(Store, body).status = 401 /\ LoginRoute(Store, body).body = NoBody

\* C12 amended: a login with an existing email and a wrong password is
\* answered 401 'Invalid credentials' when the password has at least 6
\* characters and 400 'Validation failed' when it is shorter; no token is
\* issued in either case.
C12_WrongPasswordIs401Or400 ==
  \A body \in LoginProbes :
    LET out == LoginRoute(Store, body)
    IN WrongPassword(body)
         => /\ out.body = NoBody
            /\ Len(body.password) >= PasswordMin
                 => out.status = 401 /\ out.message = "Invalid credentials"
            /\ Len(body.password) < PasswordMin
                 => out.status = 400 /\ out.message = "Validation failed"

C12_Witness ==
  /\ last.route = "login"
  /\ last.status = 401
  /\ last.token = NoToken
  /\ issued # {}
  /\ \A body \in LoginProbes : ~UnknownEmail(body)

(* ===================== properties: task fields ========================= *)
\* creation bodies with a valid title and every choice of status and priority
ValidCreateBodies ==
  LET titles == {<<" ">> \o titleTwo}
  IN [title : titles]
       \cup [title : titles, status : StatusValues]
       \cup [title : titles, priority : PriorityValues]
       \cup [title : titles, status : StatusValues, priority : PriorityValues]

\* C13: POST /api/tasks by user U with a valid title adds exactly one task,
\* owned by U, with status 'pending' and priority 'medium' when they are
\* omitted and with the supplied valid status and priority otherwise.
C13_CreateAppliesDefaults ==
  \A h \in Headers, b \in ValidCreateBodies :
    LET auth == authenticateToken(Store, h)
        out == CreateRoute(Store, h, b)
    IN auth.ok
         => /\ out.status = 201
            /\ tasks \subseteq out.tasks
            /\ Cardinality(out.tasks \ tasks) = 1
            /\ \A t \in out.tasks \ tasks :
                 /\ t = out.body
                 /\ t.userId = auth.user.id
                 /\ t.title = Trim(b.title)
                 /\ t.status = IF Has(b, "status") THEN b.status ELSE "pending"
                 /\ t.priority = IF Has(b, "priority") THEN b.priority ELSE "medium"

C13_Witness ==
  /\ last.route = "create"
  /\ last.status = 201
  /\ \E t \in tasks :
       /\ t._id = taskSeq
       /\ t.userId = last.token.userId
       /\ t.status = "pending"
       /\ t.priority = "medium"

\* valid update bodies, one per field and one with two fields
OwnerUpdateBodies ==
  {[title |-> <<" ">> \o titleTwo],
   [description |-> <<"d">>],
   [status |-> "in-progress"],
   [priority |-> "low"],
   [dueDate |-> "2026-02-01"],
   [dueDate |-> Null],
   [status |-> "completed", priority |-> "high"]}

\* the value a body supplies for a field, as the stored document holds it
Supplied(body, f) ==
  IF f = "title" THEN Trim(body.title)
  ELSE IF f = "description" THEN Some(Trim(body.description))
  ELSE body[f]

UpdatableFields == {"title", "description", "status", "priority", "dueDate"}

\* the task with the given id in a collection
TaskWithId(collection, id) == CHOOSE t \in collection : t._id = id.oid

\* the requester of the header owns the task of the id
OwnedByRequester(auth, id) ==
  /\ auth.ok
  /\ IsMongoId(id)
  /\ \E t \in tasks : t._id = id.oid /\ t.userId = auth.user.id

\* C14: PUT /api/tasks/:id by the owner sets exactly the supplied fields to
\* the supplied values and leaves the omitted fields of the task and every
\* other task unchanged.
C14_UpdateChangesSuppliedFieldsOnly ==
  \A h \in Headers, id \in IdParams, b \in OwnerUpdateBodies :
    LET out == UpdateRoute(Store, h, id, b)
        old == TaskWithId(tasks, id)
        new == TaskWithId(out.tasks, id)
    IN OwnedByRequester(authenticateToken(Store, h), id)
         => /\ out.status = 200
            /\ out.tasks \ {new} = tasks \ {old}
            /\ new._id = old._id /\ new.userId = old.userId /\ new.createdAt = old.createdAt
            /\ \A f \in UpdatableFields :
                 new[f] = IF Has(b, f) THEN Supplied(b, f) ELSE old[f]

\* C15: on a task with a due date, PUT by the owner with dueDate: null leaves
\* the task without a due date, and PUT without a dueDate field leaves the due
\* date as it was.
C15_NullClearsDueDate ==
  \A h \in Headers, id \in IdParams :
    LET old == TaskWithId(tasks, id)
        cleared == TaskWithId(UpdateRoute(Store, h, id, [dueDate |-> Null]).tasks, id)
        kept == TaskWithId(UpdateRoute(Store, h, id, [status |-> "completed"]).tasks, id)
    IN OwnedByRequester(authenticateToken(Store, h), id) /\ old.dueDate \in ValidDates
         => /\ cleared.dueDate \notin ValidDates
            /\ kept.dueDate = old.dueDate

(* ===================== properties: reads =============================== *)
\* r is x / y * 100 rounded to the nearest integer, halves upwards
IsRoundedPercent(r, x, y) == 2 * r * y - y <= 200 * x /\ 200 * x < 2 * r * y + y

\* the groups of a breakdown count the given tasks by the given field
CountsBy(breakdown, mine, f) ==
  /\ \A e \in breakdown : e.count = Cardinality({t \in mine : t[f] = e._id}) /\ e.count > 0
  /\ \A t \in mine : \E e \in breakdown : e._id = t[f]
  /\ \A d, e \in breakdown : d._id = e._id => d = e

StoresUntouched(out) ==
  /\ out.users = users /\ out.userSeq = userSeq
  /\ out.tasks = tasks /\ out.taskSeq = taskSeq

\* C17: GET /api/tasks/:id, GET /api/tasks, GET /api/tasks/stats/summary and
\* GET /api/auth/me leave the user store and the task store unchanged, and
\* GET /api/tasks/:id repeated with the same token returns the same answer.
C17_ReadsArePure ==
  \A h \in AllHeaders :
    /\ StoresUntouched(MeRoute(Store, h))
    /\ StoresUntouched(SummaryRoute(Store, h))
    /\ \A q \in ListQueries : StoresUntouched(GetAllRoute(Store, h, q))
    /\ \A id \in IdParams :
         LET first == GetOneRoute(Store, h, id)
             second == GetOneRoute(After(first), h, id)
         IN /\ StoresUntouched(first)
            /\ second.status = first.status /\ second.body = first.body

C17_Witness ==
  /\ last.route = "getOne"
  /\ last.status = 200
  /\ \E t \in tasks : t._id = last.id /\ t.userId = last.token.userId

SortByValues == {"createdAt", "dueDate", "priority", "title"}

\* C18: GET /api/tasks with sortBy createdAt, dueDate, priority or title and
\* sortOrder asc or desc is answered 200 with the caller's tasks ordered by
\* that field in that direction.
C18_EverySortByIsAccepted ==
  \A h \in Headers, sortBy \in SortByValues, sortOrder \in SortOrders :
    LET auth == authenticateToken(Store, h)
        out == GetAllRoute(Store, h, [sortBy |-> sortBy, sortOrder |-> sortOrder])
    IN auth.ok
         => /\ out.status = 200
            /\ Sorted(out.body, sortBy, sortOrder)
            /\ {out.body[i] : i \in 1..Len(out.body)} = {t \in tasks : t.userId = auth.user.id}

(* ===================== properties: errors ============================== *)
\* the answer of a request turned down by validate()
TurnedDown(out) == out.status = 400 /\ ~out.ran /\ StoresUntouched(out)

\* C19: a register with a username shorter than 3, an invalid email or a
\* password shorter than 6, a login with an invalid email, a task creation
\* with an empty title and a task get, update or delete with a non-ObjectId
\* id are answered 400 before any handler runs, the stores unchanged.
C19_InvalidInputIsTurnedDown ==
  /\ \A b \in RegisterBodies :
       \/ Len(Trim(b.username)) < UsernameMin
       \/ ~IsEmail(Trim(b.email))
       \/ Len(b.password) < PasswordMin
       => TurnedDown(RegisterRoute(Store, b))
  /\ \A b \in LoginBodies : ~IsEmail(Trim(b.email)) => TurnedDown(LoginRoute(Store, b))
  /\ \A h \in AllHeaders :
       /\ \A b \in CreateBodies \cup {[title |-> <<>>]} :
            Trim(b.title) = <<>> => TurnedDown(CreateRoute(Store, h, b))
       /\ TurnedDown(GetOneRoute(Store, h, NotAnObjectId))
       /\ TurnedDown(RemoveRoute(Store, h, NotAnObjectId))
       /\ \A b \in UpdateBodies : TurnedDown(UpdateRoute(Store, h, NotAnObjectId, b))

C19_Witness ==
  /\ last.route = "create"
  /\ last.status = 400
  /\ last.message = "Validation failed"
  /\ last.token \in issued
  /\ tasks # {}

\* C20: a response to a handler's unexpected exception is a 500 carrying only
\* the generic message, never the exception's own message.
C20_ErrorsCarryNoDetail ==
  last.status = 500 => last.message = "Internal Server Error"

(* ===================== properties: configuration ======================= *)
\* C21: with the signing secret absent from the configuration the server
\* answers no request with a per-request failure (403 from the gate, 500
\* from register or login).
C21_MissingSecretStopsService ==
  jwtSecret = NoSecret => last.status \notin {403, 500}

(* ===================== properties: projections ========================= *)
\* a user object carries id, username and email, and nothing else
OnlyPublicFields(user) == DOMAIN user = {"id", "username", "email"}

\* the body of an answer is empty, or a token with a public user, or a
\* public user
CarriesNoPassword(out) ==
  \/ out.body = NoBody
  \/ /\ DOMAIN out.body \in {{"token", "user"}, {"user"}}
     /\ OnlyPublicFields(out.body.user)

\* C22: no response of register, login or GET /api/auth/me, and no identity
\* the gate attaches, contains a password or a password hash: the user object
\* carries only id, username and email.
C22_NoPasswordLeaves ==
  /\ \A b \in RegisterBodies : CarriesNoPassword(RegisterRoute(Store, b))
  /\ \A b \in LoginBodies : CarriesNoPassword(LoginRoute(Store, b))
  /\ \A h \in AllHeaders :
       /\ CarriesNoPassword(MeRoute(Store, h))
       /\ authenticateToken(Store, h).ok => OnlyPublicFields(authenticateToken(Store, h).user)

C22_Witness ==
  /\ last.route = "login"
  /\ last.status = 200
  /\ last.token \in issued
  /\ \E u \in users : u._id = last.token.userId /\ u.password = BcryptHash(password)

(* ===================== properties: header shape ======================== *)
\* C26: the gate attaches an identity only for a header of the shape
\* 'Bearer <token>': a header with another scheme or without a second part
\* never authenticates.
C26_OnlyBearerAuthenticates ==
  \A h \in AllHeaders :
    authenticateToken(Store, h).ok
      => h.present /\ Len(h.parts) = 2 /\ h.parts[1] = "Bearer"

(* ===================== properties: failed registration ================= *)
\* C27: a registration that is not answered 201 leaves the user store as it
\* was.
C27_FailedRegistrationSavesNothing ==
  [][last'.route = "register" /\ last'.status # 201 => users' = users]_vars

(* ===================== properties: interleaved requests ================ *)
\* C24: in every reachable state, with registrations interleaved between
\* their lookup and their save, no two user records share a username and no
\* two share an email.
C24_UsersStayUnique ==
  \A u, v \in users :
    u # v => u._id # v._id /\ u.username # v.username /\ u.email # v.email

C24_Witness ==
  /\ last.route = "register"
  /\ last.status = 500
  /\ last.message = DuplicateKey
  /\ Cardinality(users) = 1
  /\ Cardinality(Answered("register")) = 2

\* C25: every PUT /api/tasks/:id of the owner that was answered 200 has its
\* fields in the task, whatever other updates of the same task were served
\* between its gate and its write: no update is lost.
C25_ConcurrentUpdatesBothApply ==
  \A r \in Answered("update") :
    r.status = 200
      => /\ \A f \in DOMAIN r.body : r.answer[f] = r.body[f]
         /\ \A t \in tasks :
              t._id = r.id.oid => \A f \in DOMAIN r.body : t[f] = r.body[f]

C25_Witness ==
  \E r, q \in Answered("update") :
    /\ r.id = q.id /\ r.body # q.body
    /\ r.status = 200 /\ q.status = 200
    /\ r.n < q.n /\ r.order > q.order
    /\ \E t \in tasks : t._id = r.id.oid /\ t.status = "completed" /\ t.priority = "high"

RECURSIVE SumCounts(_)
SumCounts(breakdown) ==
  IF breakdown = {} THEN 0
  ELSE LET s == CHOOSE x \in breakdown : TRUE
       IN s.count + SumCounts(breakdown \ {s})

\* C28: in every stats response, also of a request served while the same
\* user's tasks are created, updated and deleted, completionRate lies between
\* 0 and 100 and totalTasks is the sum of the statusBreakdown counts and the
\* sum of the priorityBreakdown counts.
C28_StatsAreConsistent ==
  \A r \in Answered("summary") :
    /\ r.answer.completionRate >= 0
    /\ r.answer.completionRate <= 100
    /\ r.answer.totalTasks = SumCounts(r.answer.statusBreakdown)
    /\ r.answer.totalTasks = SumCounts(r.answer.priorityBreakdown)

(* ===================== properties: the browser ========================= *)
\* the response of a call arrives in this step
Received(c) ==
  /\ c \in calls /\ c.phase = "answered"
  /\ calls' = (calls \ {c}) \cup
       (IF c.kind = "fetchTasks" THEN {[c EXCEPT !.phase = "done"]} ELSE {})

\* C23: when createTask resolves the returned task is added to the hook's
\* list, when updateTask(id) resolves the entry with that id becomes the
\* server's response and the others stay, when deleteTask(id) resolves no
\* entry with that id remains and the others stay; when the request fails
\* the list is unchanged.
C23_ListFollowsResponses ==
  [][\A c \in calls :
       Received(c) /\ c.kind \in {"createTask", "updateTask", "deleteTask"}
         => LET old == client.tasks
                new == client'.tasks
            IN /\ ~Resolved(c) => new = old
               /\ Resolved(c) /\ c.kind = "createTask"
                    => new = <<c.body>> \o old /\ Len(new) = Len(old) + 1
               /\ Resolved(c) /\ c.kind = "updateTask"
                    => /\ Len(new) = Len(old)
                       /\ \A i \in 1..Len(old) :
                            new[i] = IF old[i]._id = c.id.oid THEN c.body ELSE old[i]
               /\ Resolved(c) /\ c.kind = "deleteTask"
                    => /\ \A i \in 1..Len(new) : new[i]._id # c.id.oid
                       /\ new = SelectSeq(old, LAMBDA t : t._id # c.id.oid)]_vars

C23_Witness ==
  /\ calls = {}
  /\ Len(client.tasks) = 2
  /\ {client.tasks[i] : i \in 1..Len(client.tasks)} = tasks
  /\ \E i, j \in 1..Len(client.tasks) :
       client.tasks[i].status = "completed" /\ client.tasks[j].status = "pending"

Fetches == {c \in calls : c.kind = "fetchTasks"}

\* C29: loading is true for as long as a fetchTasks call is in flight, and
\* once the responses of all fetchTasks calls have arrived the hook's list is
\* the response to the call issued last, whatever order they arrived in.
C29_LatestFetchWins ==
  [][/\ {c \in calls' : c.kind = "fetchTasks" /\ c.phase # "done"} # {} => client'.loading
     /\ \A c \in Fetches :
          /\ Received(c)
          /\ \A d \in Fetches \ {c} : d.phase = "done"
          => LET latest == CHOOSE d \in Fetches : \A e \in Fetches : e.n <= d.n
             IN Resolved(latest) => client'.tasks = latest.body.list]_vars

====
